---------------------------- MODULE Spec2Model ----------------------------
(***************************************************************************)
(* A model of create_dataset/scene.go: the room layout (camera, backdrop   *)
(* decomposition, mesh placement), the light loop of RandomScene and the   *)
(* exposure normaliser (BrightnessScale, quantileBrightness).              *)
(*                                                                         *)
(* float64 values are modelled as exact fractions <<n, d>>, d >= 0, in     *)
(* lowest terms.  d = 0 encodes the IEEE special values the Go code can    *)
(* produce: <<1,0>> is +Inf, <<-1,0>> is -Inf and <<0,0>> is NaN.          *)
(* Rounding is not modelled.                                               *)
(***************************************************************************)
EXTENDS Integers, Sequences, FiniteSets, TLC

VARIABLES
    pc,           \* position of the running function
    room,         \* the RoomLayout {Width, Depth}
    mesh,         \* CreateBackdrop: triangles still in the box mesh
    walls,        \* CreateBackdrop: the panels emitted so far
    call,         \* placeInBounds: its arguments and random draws
    ret,          \* placeInBounds / CameraInfo / BrightnessScale: the result
    numLights,    \* RandomScene: the sampled light count
    focusPoints,  \* RandomScene: focus points registered so far
    focusProbs,   \* RandomScene: focus probabilities registered so far
    objects,      \* RandomScene: the kinds of the objects joined so far
    img           \* BrightnessScale: the image (one <<r,g,b>> per pixel)

vars == <<pc, room, mesh, walls, call, ret, numLights, focusPoints, focusProbs,
          objects, img>>

-----------------------------------------------------------------------------
(* float64 arithmetic *)

Abs(x) == IF x < 0 THEN -x ELSE x

Sign(x) == IF x < 0 THEN -1 ELSE IF x > 0 THEN 1 ELSE 0

RECURSIVE GCD(_, _)
GCD(a, b) == IF b = 0 THEN a ELSE GCD(b, a % b)

\* The fraction n/d in lowest terms; x/0 is +Inf, -Inf or NaN by the sign of x.
Frac(n, d) ==
    IF d = 0 THEN <<Sign(n), 0>>
    ELSE LET g == GCD(Abs(n), Abs(d))
             s == IF d < 0 THEN -1 ELSE 1
         IN  <<(s * n) \div g, (s * d) \div g>>

R(k) == <<k, 1>>

IsNaN(a) == a[1] = 0 /\ a[2] = 0

IsInf(a) == a[1] # 0 /\ a[2] = 0

IsFinite(a) == a[2] > 0

RNeg(a) == <<-a[1], a[2]>>

RAdd(a, b) ==
    IF IsNaN(a) \/ IsNaN(b) THEN <<0, 0>>
    ELSE IF IsInf(a) /\ IsInf(b) THEN (IF a[1] = b[1] THEN a ELSE <<0, 0>>)
    ELSE IF IsInf(a) THEN a
    ELSE IF IsInf(b) THEN b
    ELSE LET g == GCD(a[2], b[2])
         IN  Frac(a[1] * (b[2] \div g) + b[1] * (a[2] \div g), (a[2] \div g) * b[2])

RSub(a, b) == RAdd(a, RNeg(b))

RMul(a, b) == Frac(a[1] * b[1], a[2] * b[2])

RDiv(a, b) ==
    IF IsNaN(a) \/ IsNaN(b) THEN <<0, 0>>
    ELSE IF b[1] < 0 THEN Frac(-(a[1] * b[2]), a[2] * (-b[1]))
    ELSE Frac(a[1] * b[2], a[2] * b[1])

\* a < b and a <= b as Go compares float64: false when either side is NaN.
RLt(a, b) ==
    /\ ~IsNaN(a)
    /\ ~IsNaN(b)
    /\ IF a[2] = 0 /\ b[2] = 0 THEN a[1] < b[1]
       ELSE IF a[2] = 0 THEN a[1] < 0
       ELSE IF b[2] = 0 THEN 0 < b[1]
       ELSE LET g == GCD(a[2], b[2])
            IN  a[1] * (b[2] \div g) < b[1] * (a[2] \div g)

RLeq(a, b) == ~IsNaN(a) /\ ~IsNaN(b) /\ ~RLt(b, a)

\* math.Min and math.Max: NaN if either argument is NaN.
RMin(a, b) ==
    IF IsNaN(a) \/ IsNaN(b) THEN <<0, 0>> ELSE IF RLt(b, a) THEN b ELSE a

RMax(a, b) ==
    IF IsNaN(a) \/ IsNaN(b) THEN <<0, 0>> ELSE IF RLt(a, b) THEN b ELSE a

-----------------------------------------------------------------------------
(* model3d.Coord3D *)

Coord(x, y, z) == <<x, y, z>>

CAdd(a, b) == <<RAdd(a[1], b[1]), RAdd(a[2], b[2]), RAdd(a[3], b[3])>>

CSub(a, b) == <<RSub(a[1], b[1]), RSub(a[2], b[2]), RSub(a[3], b[3])>>

CScale(a, k) == <<RMul(a[1], k), RMul(a[2], k), RMul(a[3], k)>>

\* Coord3D.Mul: the component-wise product.
CMul(a, b) == <<RMul(a[1], b[1]), RMul(a[2], b[2]), RMul(a[3], b[3])>>

CDot(a, b) == RAdd(RAdd(RMul(a[1], b[1]), RMul(a[2], b[2])), RMul(a[3], b[3]))

\* Coord3D.Mid: the midpoint.
CMid(a, b) == CScale(CAdd(a, b), Frac(1, 2))

Half(x) == RDiv(x, R(2))

Layout(w, d) == [Width |-> w, Depth |-> d]

-----------------------------------------------------------------------------
(* RoomLayout.CameraInfo *)

\* CameraInfo with the 1e-5 offset left out.
CameraInfoNoEps(r) ==
    [position |-> Coord(R(0), RNeg(Half(r.Depth)), Frac(1, 2)),
     target   |-> Coord(R(0), Half(r.Depth), Frac(1, 2))]

\* Coord3D{Z: 0.5, Y: -r.Depth/2 + 1e-5}, Coord3D{Z: 0.5, Y: r.Depth / 2}
CameraInfoOf(r) ==
    [position |-> Coord(R(0), RAdd(RNeg(Half(r.Depth)), Frac(1, 100000)), Frac(1, 2)),
     target   |-> Coord(R(0), Half(r.Depth), Frac(1, 2))]

\* Widths and depths of the layouts CameraInfo is called on: the range
\* RandomSceneLayout samples (5 <= Depth <= 25) and shallower rooms, down to
\* a depth of 1e-5.
CameraWidths == {R(0), Frac(1, 2), R(1), R(2), Frac(5, 2)}

CameraDepths == {Frac(1, 100000)} \cup {Frac(k, 2) : k \in 1..50}

CameraInfo ==
    /\ pc = "ci_call"
    /\ ret' = CameraInfoOf(room)
    /\ pc' = "ci_done"
    /\ UNCHANGED <<room, mesh, walls, call, numLights, focusPoints, focusProbs,
                   objects, img>>

InitCamera ==
    /\ pc = "ci_call"
    /\ room \in {Layout(w, d) : w \in CameraWidths, d \in CameraDepths}
    /\ ret = <<>>
    /\ mesh = {}
    /\ walls = <<>>
    /\ call = <<>>
    /\ numLights = 0
    /\ focusPoints = <<>>
    /\ focusProbs = <<>>
    /\ objects = <<>>
    /\ img = <<>>

NextCamera == CameraInfo

SpecCamera == InitCamera /\ [][NextCamera]_vars

\* C8: for every RoomLayout with Depth > 0, CameraInfo returns position
\* (0, -Depth/2 + 1e-5, 0.5) and target (0, Depth/2, 0.5) whatever the Width
\* (Width 1, Depth 10: (0, -5 + 1e-5, 0.5) and (0, 5, 0.5)); for every depth
\* RandomSceneLayout can sample (5 <= Depth <= 25) origin and target differ
\* and the origin lies strictly between the near and the far wall.
C8_CameraInfo ==
    (pc = "ci_done" /\ RLt(R(0), room.Depth)) =>
        LET d == room.Depth
            y == RSub(Frac(1, 100000), Frac(d[1], 2 * d[2]))
        IN  /\ ret.position = <<R(0), y, Frac(1, 2)>>
            /\ ret.target = <<R(0), Frac(d[1], 2 * d[2]), Frac(1, 2)>>
            /\ (room = Layout(R(1), R(10))) =>
                  /\ ret.position = <<R(0), Frac(-499999, 100000), Frac(1, 2)>>
                  /\ ret.target = <<R(0), R(5), Frac(1, 2)>>
            /\ (RLeq(R(5), d) /\ RLeq(d, R(25))) =>
                  /\ ret.position # ret.target
                  /\ RLt(Frac(-d[1], 2 * d[2]), ret.position[2])
                  /\ RLt(ret.position[2], Frac(d[1], 2 * d[2]))

C8_Witness ==
    /\ pc = "ci_done"
    /\ room = Layout(R(1), R(10))
    /\ ret.position[2] = Frac(-499999, 100000)

-----------------------------------------------------------------------------
(* RoomLayout.CreateBackdrop *)

\* The nil *model3d.Triangle.
Nil == 0

\* min and max of the box CreateBackdrop builds.
BackdropMin(r) == Coord(RNeg(Half(r.Width)), RNeg(Half(r.Depth)), R(0))

BackdropMax(r) == Coord(Half(r.Width), Half(r.Depth), R(1))

\* The corner of the box [lo, hi] picked by the bits c (0: lo, 1: hi).
Corner(lo, hi, c) ==
    <<IF c[1] = 0 THEN lo[1] ELSE hi[1],
      IF c[2] = 0 THEN lo[2] ELSE hi[2],
      IF c[3] = 0 THEN lo[3] ELSE hi[3]>>

\* The six faces of a box, each a quadrilateral whose corners wind
\* counter-clockwise seen from outside.
FaceCorners ==
    << <<<<1, 0, 0>>, <<1, 1, 0>>, <<1, 1, 1>>, <<1, 0, 1>>>>,
       <<<<0, 0, 0>>, <<0, 0, 1>>, <<0, 1, 1>>, <<0, 1, 0>>>>,
       <<<<0, 1, 0>>, <<0, 1, 1>>, <<1, 1, 1>>, <<1, 1, 0>>>>,
       <<<<0, 0, 0>>, <<1, 0, 0>>, <<1, 0, 1>>, <<0, 0, 1>>>>,
       <<<<0, 0, 1>>, <<1, 0, 1>>, <<1, 1, 1>>, <<0, 1, 1>>>>,
       <<<<0, 0, 0>>, <<0, 1, 0>>, <<1, 1, 0>>, <<1, 0, 0>>>> >>

\* The identities of the twelve triangles of model3d.NewMeshRect: triangles
\* 2f-1 and 2f split face f along a diagonal.
Triangles == 1..12

\* The vertices of triangle t of NewMeshRect(lo, hi).
TriangleOf(lo, hi, t) ==
    LET q == FaceCorners[(t + 1) \div 2]
    IN  IF t % 2 = 1
        THEN <<Corner(lo, hi, q[1]), Corner(lo, hi, q[2]), Corner(lo, hi, q[3])>>
        ELSE <<Corner(lo, hi, q[1]), Corner(lo, hi, q[3]), Corner(lo, hi, q[4])>>

Tri(r, t) == TriangleOf(BackdropMin(r), BackdropMax(r), t)

VerticesOf(tri) == {tri[1], tri[2], tri[3]}

CCross(a, b) ==
    <<RSub(RMul(a[2], b[3]), RMul(a[3], b[2])),
      RSub(RMul(a[3], b[1]), RMul(a[1], b[3])),
      RSub(RMul(a[1], b[2]), RMul(a[2], b[1]))>>

\* The unnormalised normal of a triangle.
RawNormal(tri) == CCross(CSub(tri[2], tri[1]), CSub(tri[3], tri[1]))

\* n.Normal().Dot(t.Normal()) > 0.99 for triangles a and b.  The unit
\* normals need a square root, so the test is made on the square of the
\* cosine; a zero-area triangle has a NaN normal and the test is false.
NearParallel(a, b) ==
    LET n1 == RawNormal(a)
        n2 == RawNormal(b)
        d  == CDot(n1, n2)
    IN  /\ RLt(R(0), d)
        /\ RLt(Frac(9801, 10000), RDiv(RMul(d, d), RMul(CDot(n1, n1), CDot(n2, n2))))

\* mesh.Neighbors(t): the triangles of the mesh other than t that hold both
\* ends of one of t's sides.
Neighbors(r, m, t) ==
    {n \in m \ {t} :
        \E i, j \in 1..3 :
            /\ i < j
            /\ Tri(r, t)[i] \in VerticesOf(Tri(r, n))
            /\ Tri(r, t)[j] \in VerticesOf(Tri(r, n))}

\* The values the loop over mesh.Neighbors(t) can leave in neighbor: the
\* first neighbour found near-parallel, or nil when there is none.
NeighborChoices(r, m, t) ==
    LET found == {n \in Neighbors(r, m, t) : NearParallel(Tri(r, n), Tri(r, t))}
    IN  IF found = {} THEN {Nil} ELSE found

\* The removal with mesh.Remove(neighbor) left out.
RemoveOnlyVisited(m, t, neighbor) == m \ {t}

\* mesh.Remove(neighbor); mesh.Remove(t)
RemovePair(m, t, neighbor) == m \ {neighbor, t}

\* Orders in which mesh.Iterate may walk the twelve triangles.
IterateOrders ==
    {[i \in 1..12 |-> ((a * (i - 1) + b) % 12) + 1] : a \in {1, 5, 7, 11}, b \in 0..11}

\* Layouts CreateBackdrop is called on; a zero Width or Depth flattens the box.
BackdropLayouts == {Layout(R(w), R(d)) : w \in {0, 1, 2}, d \in {0, 6, 10}}

\* mesh := model3d.NewMeshRect(min, max); mesh.Iterate starts.
CB_NewMeshRect ==
    /\ pc = "cb_call"
    /\ mesh' = Triangles
    /\ walls' = <<>>
    /\ \E o \in IterateOrders : call' = [order |-> o, pos |-> 1]
    /\ pc' = "cb_iterate"
    /\ UNCHANGED <<room, ret, numLights, focusPoints, focusProbs, objects, img>>

\* mesh.Iterate passes over a triangle that was removed before its turn.
CB_Skip ==
    /\ pc = "cb_iterate"
    /\ call.pos <= 12
    /\ call.order[call.pos] \notin mesh
    /\ call' = [call EXCEPT !.pos = call.pos + 1]
    /\ UNCHANGED <<pc, room, mesh, walls, ret, numLights, focusPoints, focusProbs,
                   objects, img>>

\* The callback on the next triangle t still in the mesh.  With no
\* near-parallel neighbour, neighbor stays nil and the panel is built from
\* {t, nil}: the mesh library either stores the nil triangle or faults on it.
CB_Visit ==
    /\ pc = "cb_iterate"
    /\ call.pos <= 12
    /\ call.order[call.pos] \in mesh
    /\ LET t == call.order[call.pos]
       IN  \E neighbor \in NeighborChoices(room, mesh, t) :
              /\ mesh' = RemovePair(mesh, t, neighbor)
              /\ \/ /\ walls' = Append(walls, <<t, neighbor>>)
                    /\ call' = [call EXCEPT !.pos = call.pos + 1]
                    /\ pc' = pc
                 \/ /\ neighbor = Nil
                    /\ pc' = "cb_panic"
                    /\ UNCHANGED <<walls, call>>
    /\ UNCHANGED <<room, ret, numLights, focusPoints, focusProbs, objects, img>>

\* return walls
CB_Return ==
    /\ pc = "cb_iterate"
    /\ call.pos > 12
    /\ ret' = walls
    /\ pc' = "cb_done"
    /\ UNCHANGED <<room, mesh, walls, call, numLights, focusPoints, focusProbs,
                   objects, img>>

InitBackdrop ==
    /\ pc = "cb_call"
    /\ room \in BackdropLayouts
    /\ ret = <<>>
    /\ mesh = {}
    /\ walls = <<>>
    /\ call = <<>>
    /\ numLights = 0
    /\ focusPoints = <<>>
    /\ focusProbs = <<>>
    /\ objects = <<>>
    /\ img = <<>>

NextBackdrop == CB_NewMeshRect \/ CB_Skip \/ CB_Visit \/ CB_Return

SpecBackdrop == InitBackdrop /\ [][NextBackdrop]_vars

ValidRoom == RLt(R(0), room.Width) /\ RLt(R(0), room.Depth)

\* The eight corners of the room, from its Width and Depth.
RoomCorners ==
    {<<x, y, z>> : x \in {Frac(-room.Width[1], 2 * room.Width[2]),
                          Frac(room.Width[1], 2 * room.Width[2])},
                   y \in {Frac(-room.Depth[1], 2 * room.Depth[2]),
                          Frac(room.Depth[1], 2 * room.Depth[2])},
                   z \in {R(0), R(1)}}

\* C2: for every RoomLayout with Width > 0 and Depth > 0, CreateBackdrop
\* returns exactly 6 panels, each of 2 triangles that share an edge and have
\* near-parallel normals; each of the 12 triangles of the box is in exactly
\* one panel, the working mesh is empty at the end, and the panels' vertices
\* are together the vertices of the box.
C2_SixPanels ==
    (pc = "cb_done" /\ ValidRoom) =>
        /\ Len(ret) = 6
        /\ mesh = {}
        /\ \A k \in 1..Len(ret) :
              LET a == ret[k][1]
                  b == ret[k][2]
              IN  /\ a \in Triangles
                  /\ b \in Triangles
                  /\ a # b
                  /\ Cardinality(VerticesOf(Tri(room, a)) \cap VerticesOf(Tri(room, b))) = 2
                  /\ NearParallel(Tri(room, a), Tri(room, b))
        /\ \A t \in Triangles :
              Cardinality({k \in 1..Len(ret) : t \in {ret[k][1], ret[k][2]}}) = 1
        /\ UNION {VerticesOf(Tri(room, ret[k][i])) : k \in 1..Len(ret), i \in 1..2}
              = RoomCorners
        /\ Cardinality(RoomCorners) = 8

C2_Witness ==
    /\ pc = "cb_done"
    /\ ValidRoom
    /\ Len(ret) = 6
    /\ call.order[1] = 8

\* C6: when the decomposition meets a triangle with no edge-adjacent
\* near-parallel neighbour, CreateBackdrop ends in a fatal error: it emits no
\* panel with fewer than two real triangles and returns no panel list that
\* omits a triangle of the box.
C6_MalformedIsFatal ==
    /\ \A k \in 1..Len(walls) : walls[k][1] # Nil /\ walls[k][2] # Nil
    /\ pc = "cb_done" =>
          \A t \in Triangles : \E k \in 1..Len(ret) : t \in {ret[k][1], ret[k][2]}

-----------------------------------------------------------------------------
(* RoomLayout.PlaceMesh and placeInBounds *)

\* rand.Float64() is explored at the values k / DrawSteps, 0 <= k < DrawSteps.
DrawSteps == 3

UnitDraws == {Frac(k, DrawSteps) : k \in 0..(DrawSteps - 1)}

V(x, y, z) == <<R(x), R(y), R(z)>>

\* The meshes placed, each the set of its vertices: three with positive
\* extent on every axis, a flat one (no extent in Z) and a single point.
PlacedMeshes ==
    { {V(0, 0, 0), V(2, 0, 0), V(0, 2, 0), V(0, 0, 2), V(2, 2, 2)},
      {V(-1, -2, 0), V(1, 0, 1), V(0, 2, 3)},
      {V(3, 1, 1), V(4, 3, 2), V(3, 2, 5)},
      {V(0, 0, 0), V(2, 0, 0), V(0, 2, 0)},
      {V(1, 1, 1)} }

\* Layouts PlaceMesh is called on.
PlaceLayouts == {Layout(R(1), R(10)), Layout(R(2), R(8)), Layout(Frac(1, 2), R(5))}

\* Target boxes placeInBounds is applied to directly.
PlaceBoxes ==
    { [min |-> V(0, 0, 0), max |-> V(1, 4, 1)],
      [min |-> V(-1, -1, -1), max |-> V(1, 1, 1)] }

RECURSIVE FoldMin(_)
FoldMin(S) ==
    LET x == CHOOSE y \in S : TRUE
    IN  IF S = {x} THEN x ELSE RMin(x, FoldMin(S \ {x}))

RECURSIVE FoldMax(_)
FoldMax(S) ==
    LET x == CHOOSE y \in S : TRUE
    IN  IF S = {x} THEN x ELSE RMax(x, FoldMax(S \ {x}))

\* m.Min() and m.Max(): the corners of the bounding box.
MeshMin(m) == <<FoldMin({v[1] : v \in m}), FoldMin({v[2] : v \in m}), FoldMin({v[3] : v \in m})>>

MeshMax(m) == <<FoldMax({v[1] : v \in m}), FoldMax({v[2] : v \in m}), FoldMax({v[3] : v \in m})>>

\* m.Scale(k) and m.MapCoords(d.Add)
MeshScale(m, k) == {CScale(v, k) : v \in m}

MeshTranslate(m, d) == {CAdd(v, d) : v \in m}

\* maxScale with the Z axis left out.
MaxScaleTwoAxes(pDiff, diff) == RMin(RDiv(pDiff[1], diff[1]), RDiv(pDiff[2], diff[2]))

\* math.Min(pDiff.X/diff.X, math.Min(pDiff.Y/diff.Y, pDiff.Z/diff.Z))
MaxScaleOf(pDiff, diff) ==
    RMin(RDiv(pDiff[1], diff[1]), RMin(RDiv(pDiff[2], diff[2]), RDiv(pDiff[3], diff[3])))

\* (rand.Float64()*0.9 + 0.1) * maxScale
ScaleDraw(f, maxScale) == RMul(RAdd(RMul(f, Frac(9, 10)), Frac(1, 10)), maxScale)

\* uniformRandom().Mul(translateMax.Sub(translateMin))
TranslateOf(u, translateMin, translateMax) == CMul(u, CSub(translateMax, translateMin))

\* placeInBounds(placeMin, placeMax, m) with the draws f (scale) and u
\* (translation); the intermediate values are kept with the result.
placeInBounds(placeMin, placeMax, m, f, u) ==
    LET diff         == CSub(MeshMax(m), MeshMin(m))
        pDiff        == CSub(placeMax, placeMin)
        maxScale     == MaxScaleOf(pDiff, diff)
        scale        == ScaleDraw(f, maxScale)
        scaled       == MeshScale(m, scale)
        translateMin == CSub(placeMin, MeshMin(scaled))
        translateMax == CSub(placeMax, MeshMax(scaled))
        translate    == TranslateOf(u, translateMin, translateMax)
    IN  [placeMin |-> placeMin, placeMax |-> placeMax, diff |-> diff, pDiff |-> pDiff,
         maxScale |-> maxScale, scale |-> scale, scaled |-> scaled,
         translateMin |-> translateMin, translateMax |-> translateMax,
         translate |-> translate, mesh |-> MeshTranslate(scaled, translate)]

\* placeMin with Y: -r.Depth / 2 as in CreateBackdrop.
PlaceMinAsBackdrop(r) == Coord(RNeg(Half(r.Width)), RNeg(Half(r.Depth)), R(0))

\* model3d.Coord3D{X: -r.Width / 2}
PlaceMin(r) == Coord(RNeg(Half(r.Width)), R(0), R(0))

\* model3d.Coord3D{X: r.Width / 2, Y: r.Depth / 2, Z: 1}
PlaceMax(r) == Coord(Half(r.Width), Half(r.Depth), R(1))

\* r.PlaceMesh(m)
PlaceMesh ==
    /\ pc = "pm_call"
    /\ ret' = placeInBounds(PlaceMin(room), PlaceMax(room), call.m, call.f, call.u)
    /\ pc' = "pm_done"
    /\ UNCHANGED <<room, mesh, walls, call, numLights, focusPoints, focusProbs,
                   objects, img>>

\* placeInBounds applied to a target box of its own.
PlaceInBounds ==
    /\ pc = "pib_call"
    /\ ret' = placeInBounds(call.placeMin, call.placeMax, call.m, call.f, call.u)
    /\ pc' = "pib_done"
    /\ UNCHANGED <<room, mesh, walls, call, numLights, focusPoints, focusProbs,
                   objects, img>>

InitPlace ==
    /\ \/ /\ pc = "pm_call"
          /\ room \in PlaceLayouts
          /\ call \in [m : PlacedMeshes, f : UnitDraws,
                       u : UnitDraws \X UnitDraws \X UnitDraws]
       \/ /\ pc = "pib_call"
          /\ room = <<>>
          /\ \E b \in PlaceBoxes :
                call \in [placeMin : {b.min}, placeMax : {b.max}, m : PlacedMeshes,
                          f : UnitDraws, u : UnitDraws \X UnitDraws \X UnitDraws]
    /\ ret = <<>>
    /\ mesh = {}
    /\ walls = <<>>
    /\ numLights = 0
    /\ focusPoints = <<>>
    /\ focusProbs = <<>>
    /\ objects = <<>>
    /\ img = <<>>

NextPlace == PlaceMesh \/ PlaceInBounds

SpecPlace == InitPlace /\ [][NextPlace]_vars

Placed == pc \in {"pm_done", "pib_done"}

\* The input mesh has positive extent on every axis.
PositiveExtent ==
    \A a \in 1..3 : RLt(MeshMin(call.m)[a], MeshMax(call.m)[a])

\* v lies in the box [lo, hi].
InBox(v, lo, hi) == \A a \in 1..3 : RLeq(lo[a], v[a]) /\ RLeq(v[a], hi[a])

\* C1: for every mesh with positive extent on every axis, every target box
\* with positive extent and every draw, the mesh returned by placeInBounds /
\* PlaceMesh lies inside the target box, and the translation applied lies in
\* [placeMin - newMin, placeMax - newMax] on every axis.
C1_PlacedInsideTarget ==
    (Placed /\ PositiveExtent) =>
        /\ \A v \in ret.mesh : InBox(v, ret.placeMin, ret.placeMax)
        /\ InBox(ret.translate, ret.translateMin, ret.translateMax)

\* C7: a mesh whose bounding box has zero extent on some axis is rejected
\* before the scale is computed: no placed mesh is returned for it and no
\* quotient targetDiff/meshDiff is taken with meshDiff = 0.
C7_DegenerateRejected ==
    Placed => \A a \in 1..3 : ret.diff[a] # R(0)

\* C9 as claimed: PlaceMesh hands placeInBounds the box CreateBackdrop builds
\* the room from, [-Width/2, -Depth/2, 0] to [Width/2, Depth/2, 1].
C9_BackdropBox ==
    pc = "pm_done" =>
        /\ ret.placeMin = BackdropMin(room)
        /\ ret.placeMax = BackdropMax(room)

\* C9 as amended: PlaceMesh hands placeInBounds the box [-Width/2, 0, 0] to
\* [Width/2, Depth/2, 1]: the full width and height of the room, and in
\* depth only the half from the room's centre to the far wall.
C9_FarHalfBox ==
    pc = "pm_done" =>
        LET w == Frac(room.Width[1], 2 * room.Width[2])
            d == Frac(room.Depth[1], 2 * room.Depth[2])
        IN  /\ ret.placeMin = <<RNeg(w), R(0), R(0)>>
            /\ ret.placeMax = <<w, d, R(1)>>
            /\ ret.placeMax = BackdropMax(room)
            /\ ret.placeMin[1] = BackdropMin(room)[1]
            /\ ret.placeMin[3] = BackdropMin(room)[3]

C9_Witness ==
    /\ pc = "pm_done"
    /\ room = Layout(R(1), R(10))
    /\ ret.placeMin = <<Frac(-1, 2), R(0), R(0)>>

\* C10: for every mesh and target box with positive extents, maxScale is the
\* least of targetDiff/meshDiff over the three axes, the scale lies in
\* [0.1 * maxScale, maxScale], the scaled mesh is no larger than the target
\* on any axis, and the translation interval is non-empty on every axis.  A
\* mesh bounded by [0,0,0]-[2,2,2] in the target [0,0,0]-[1,4,1] has
\* maxScale 0.5 and a scale in [0.05, 0.5].
C10_ScaleToFit ==
    (Placed /\ PositiveExtent) =>
        LET lo == MeshMin(call.m)
            hi == MeshMax(call.m)
            ratio(a) == RDiv(RSub(ret.placeMax[a], ret.placeMin[a]), RSub(hi[a], lo[a]))
        IN  /\ \A a \in 1..3 : RLeq(ret.maxScale, ratio(a))
            /\ \E a \in 1..3 : ret.maxScale = ratio(a)
            /\ RLeq(RMul(Frac(1, 10), ret.maxScale), ret.scale)
            /\ RLeq(ret.scale, ret.maxScale)
            /\ \A a \in 1..3 :
                  /\ RLeq(RSub(MeshMax(ret.scaled)[a], MeshMin(ret.scaled)[a]),
                          RSub(ret.placeMax[a], ret.placeMin[a]))
                  /\ RLeq(ret.translateMin[a], ret.translateMax[a])
            /\ (lo = V(0, 0, 0) /\ hi = V(2, 2, 2)
                    /\ ret.placeMin = V(0, 0, 0) /\ ret.placeMax = V(1, 4, 1)) =>
                  /\ ret.maxScale = Frac(1, 2)
                  /\ RLeq(Frac(5, 100), ret.scale)
                  /\ RLeq(ret.scale, Frac(1, 2))

C10_Witness ==
    /\ pc = "pib_done"
    /\ MeshMin(call.m) = V(0, 0, 0)
    /\ MeshMax(call.m) = V(2, 2, 2)
    /\ ret.placeMax = V(1, 4, 1)
    /\ ret.maxScale = Frac(1, 2)
    /\ ret.scale = Frac(1, 20)

-----------------------------------------------------------------------------
(* RandomScene, RandomSceneLayout and RoomLayout.CreateLight *)

\* rand.Intn(10) + 1 and rand.Intn(5) + 1
MaxObjects == 10

MaxLights == 5

\* Layouts RandomSceneLayout can return: Width in [0.5, 2.5), Depth in [5, 25).
SampledLayouts == {Layout(Frac(1, 2), R(5)), Layout(R(1), R(10))}

\* The random draws of one CreateLight call.
LightDraws ==
    { [ceiling |-> TRUE, neg |-> FALSE, sphere |-> TRUE,
       u |-> R(0), v |-> Frac(1, 2), size |-> <<Frac(1, 2), R(0), R(0)>>],
      [ceiling |-> FALSE, neg |-> TRUE, sphere |-> FALSE,
       u |-> Frac(1, 4), v |-> Frac(1, 2), size |-> <<R(0), Frac(1, 2), Frac(3, 4)>>],
      [ceiling |-> FALSE, neg |-> FALSE, sphere |-> TRUE,
       u |-> Frac(3, 4), v |-> R(0), size |-> <<R(0), R(0), R(0)>>] }

\* Values of rand.Float64() drawn for the field of view.
FovDraws == {R(0), Frac(1, 2)}

\* The bounds of the light CreateLight builds from the draws d.
CreateLight(r, d) ==
    LET center ==
            IF d.ceiling
            THEN Coord(RMul(RSub(d.u, Frac(1, 2)), r.Width),
                       RMul(RSub(d.v, Frac(1, 2)), r.Depth),
                       R(1))
            ELSE Coord(IF d.neg THEN RNeg(Half(r.Width)) ELSE Half(r.Width),
                       RMul(RSub(d.u, Frac(1, 2)), r.Depth),
                       RMul(d.v, Frac(9, 10)))
        radius == RAdd(RMul(d.size[1], Frac(2, 10)), Frac(5, 100))
        size ==
            IF d.sphere
            THEN Coord(radius, radius, radius)
            ELSE CAdd(CScale(d.size, Frac(1, 10)),
                      Coord(Frac(5, 100), Frac(5, 100), Frac(5, 100)))
    IN  [min |-> CSub(center, size), max |-> CAdd(center, size)]

\* SphereFocusPoint{Center: min.Mid(max), Radius: min.Dist(max) / 2}; the
\* radius is kept squared.
FocusPointOf(light) ==
    LET diff == CSub(light.max, light.min)
    IN  [Center |-> CMid(light.min, light.max),
         RadiusSq |-> RDiv(CDot(diff, diff), R(4))]

\* The probability without the division by numLights.
LightProbUndivided(n) == Frac(3, 10)

\* 0.3 / float64(numLights)
LightProb(n) == RDiv(Frac(3, 10), R(n))

\* layout := RandomSceneLayout(); numObjects, numLights sampled.
RS_Sample ==
    /\ pc = "rs_call"
    /\ room' \in SampledLayouts
    /\ \E n \in 1..MaxObjects : call' = [numObjects |-> n, i |-> 0]
    /\ numLights' \in 1..MaxLights
    /\ pc' = "rs_backdrop"
    /\ UNCHANGED <<mesh, walls, ret, focusPoints, focusProbs, objects, img>>

\* The loop over layout.CreateBackdrop(): one object per panel, six panels
\* for a sampled layout.
RS_Backdrop ==
    /\ pc = "rs_backdrop"
    /\ objects' = objects \o [k \in 1..6 |-> "wall"]
    /\ pc' = "rs_objects"
    /\ UNCHANGED <<room, mesh, walls, call, ret, numLights, focusPoints, focusProbs, img>>

\* One iteration of the object loop: essentials.Must aborts the composition
\* when the file cannot be opened or read; otherwise the mesh is placed and
\* joined.
RS_Object ==
    /\ pc = "rs_objects"
    /\ \/ /\ pc' = "rs_abort"
          /\ UNCHANGED <<call, objects>>
       \/ /\ objects' = Append(objects, "mesh")
          /\ IF call.i + 1 < call.numObjects
             THEN /\ call' = [call EXCEPT !.i = call.i + 1]
                  /\ pc' = "rs_objects"
             ELSE /\ call' = [call EXCEPT !.i = 0]
                  /\ pc' = "rs_lights"
    /\ UNCHANGED <<room, mesh, walls, ret, numLights, focusPoints, focusProbs, img>>

\* One iteration of the light loop.
RS_Light ==
    /\ pc = "rs_lights"
    /\ \E d \in LightDraws :
          LET light == CreateLight(room, d)
          IN  /\ objects' = Append(objects, "light")
              /\ focusPoints' = Append(focusPoints, FocusPointOf(light))
    /\ focusProbs' = Append(focusProbs, LightProb(numLights))
    /\ IF call.i + 1 < numLights
       THEN /\ call' = [call EXCEPT !.i = call.i + 1]
            /\ pc' = "rs_lights"
       ELSE /\ call' = call
            /\ pc' = "rs_camera"
    /\ UNCHANGED <<room, mesh, walls, ret, numLights, img>>

\* The camera and the returned tracer; the field of view is kept as a
\* fraction of Pi.
RS_Return ==
    /\ pc = "rs_camera"
    /\ \E f \in FovDraws :
          LET cam == CameraInfoOf(room)
          IN  ret' = [Camera |-> [origin |-> cam.position, target |-> cam.target,
                                  fovOverPi |-> RDiv(RAdd(RMul(f, Frac(1, 2)), Frac(1, 2)), R(3))],
                      FocusPoints |-> focusPoints,
                      FocusPointProbs |-> focusProbs,
                      Objects |-> objects]
    /\ pc' = "rs_done"
    /\ UNCHANGED <<room, mesh, walls, call, numLights, focusPoints, focusProbs,
                   objects, img>>

InitScene ==
    /\ pc = "rs_call"
    /\ room = <<>>
    /\ ret = <<>>
    /\ mesh = {}
    /\ walls = <<>>
    /\ call = <<>>
    /\ numLights = 0
    /\ focusPoints = <<>>
    /\ focusProbs = <<>>
    /\ objects = <<>>
    /\ img = <<>>

NextScene == RS_Sample \/ RS_Backdrop \/ RS_Object \/ RS_Light \/ RS_Return

SpecScene == InitScene /\ [][NextScene]_vars

RECURSIVE SumSeq(_)
SumSeq(s) == IF s = <<>> THEN R(0) ELSE RAdd(Head(s), SumSeq(Tail(s)))

\* C3: for every light count L that RandomScene can sample (1 <= L <= 5) the
\* returned tracer holds exactly L focus points and exactly L focus
\* probabilities, each probability is 0.3/L and they sum to 0.3; the sum of
\* the probabilities registered so far never exceeds 0.3.
C3_FocusProbabilities ==
    /\ RLeq(SumSeq(focusProbs), Frac(3, 10))
    /\ pc = "rs_done" =>
          /\ numLights \in 1..5
          /\ Len(ret.FocusPoints) = numLights
          /\ Len(ret.FocusPointProbs) = numLights
          /\ \A k \in 1..numLights : ret.FocusPointProbs[k] = Frac(3, 10 * numLights)
          /\ SumSeq(ret.FocusPointProbs) = Frac(3, 10)

C3_Witness ==
    /\ pc = "rs_done"
    /\ numLights = 3
    /\ Len(ret.FocusPointProbs) = 3

-----------------------------------------------------------------------------
(* Exposure normaliser: quantileBrightness and BrightnessScale *)

\* Longest image explored.
MaxPixels == 6

Black == <<R(0), R(0), R(0)>>

Mid == <<Frac(1, 10), Frac(2, 10), Frac(3, 10)>>

White == <<R(1), R(1), R(1)>>

Colors == {Black, Mid, White}

Images == UNION {[1..n -> Colors] : n \in 0..MaxPixels}

\* Values of rand.NormFloat64() explored.
NormDraws == {R(-3), R(-1), R(0), R(2), R(7)}

\* c.Sum() / 3.0
Brightness(c) == RDiv(RAdd(RAdd(c[1], c[2]), c[3]), R(3))

\* One pass of insertion: x placed before the first element greater than it.
RECURSIVE Insert(_, _)
Insert(x, s) ==
    IF s = <<>> THEN <<x>>
    ELSE IF RLeq(x, Head(s)) THEN <<x>> \o s
    ELSE <<Head(s)>> \o Insert(x, Tail(s))

\* sort.Float64s: the same values in ascending order.
RECURSIVE SortFloat64s(_)
SortFloat64s(s) ==
    IF s = <<>> THEN <<>> ELSE Insert(Head(s), SortFloat64s(Tail(s)))

\* int(x) for a finite x >= 0: truncation.
IntOf(x) == x[1] \div x[2]

\* The index of the brightest pixel.
QuantileIndexMax(n) == n - 1

\* The index int(float64(len(bs)) * 0.8), 0-based.
QuantileIndex(n) == IntOf(RMul(R(n), Frac(8, 10)))

\* bs after the loop and the sort.
SortedBrightness(image) ==
    SortFloat64s([i \in 1..Len(image) |-> Brightness(image[i])])

\* quantileBrightness on a non-empty image (Go indexes from 0).
quantileBrightness(image) ==
    SortedBrightness(image)[QuantileIndex(Len(image)) + 1]

\* math.Min(0.9, math.Max(0.1, z*0.1+0.3))
TargetOf(z) == RMin(Frac(9, 10), RMax(Frac(1, 10), RAdd(RMul(z, Frac(1, 10)), Frac(3, 10))))

\* The estimate without the 1e-5 floor.
MedianNoFloor(q) == q

\* math.Max(1e-5, quantileBrightness(img))
MedianOf(q) == RMax(Frac(1, 100000), q)

\* math.Max(1.0, target/median)
ScaleOf(target, median) == RMax(R(1), RDiv(target, median))

\* BrightnessScale(img).  bs[0] of an empty slice panics (index out of range).
BrightnessScale ==
    /\ pc = "bs_call"
    /\ \/ /\ Len(img) = 0
          /\ pc' = "bs_panic"
          /\ ret' = ret
       \/ /\ Len(img) > 0
          /\ \E z \in NormDraws :
                LET target == TargetOf(z)
                    q      == quantileBrightness(img)
                    median == MedianOf(q)
                IN  ret' = [target |-> target, quantile |-> q,
                            median |-> median, scale |-> ScaleOf(target, median)]
          /\ pc' = "bs_done"
    /\ UNCHANGED <<room, mesh, walls, call, numLights, focusPoints, focusProbs,
                   objects, img>>

InitExposure ==
    /\ pc = "bs_call"
    /\ img \in Images
    /\ ret = <<>>
    /\ room = <<>>
    /\ mesh = {}
    /\ walls = <<>>
    /\ call = <<>>
    /\ numLights = 0
    /\ focusPoints = <<>>
    /\ focusProbs = <<>>
    /\ objects = <<>>

NextExposure == BrightnessScale

SpecExposure == InitExposure /\ [][NextExposure]_vars

\* Number of pixels of image whose brightness satisfies Test.
CountPixels(image, Test(_)) ==
    Cardinality({i \in 1..Len(image) : Test(Brightness(image[i]))})

\* C4: for every non-empty image and every sampled target, the target lies in
\* [0.1, 0.9], BrightnessScale returns a factor >= 1.0, exactly 1.0 when the
\* 80th-percentile brightness is >= the target, and a factor above 1.0 only
\* when max(1e-5, quantile) is below the target, where the factor is
\* target / max(1e-5, quantile).
C4_NeverDarkens ==
    pc = "bs_done" =>
        LET eps   == Frac(1, 100000)
            est   == IF RLt(ret.quantile, eps) THEN eps ELSE ret.quantile
        IN  /\ RLeq(Frac(1, 10), ret.target)
            /\ RLeq(ret.target, Frac(9, 10))
            /\ RLeq(R(1), ret.scale)
            /\ RLeq(ret.target, ret.quantile) => ret.scale = R(1)
            /\ RLt(R(1), ret.scale) =>
                  /\ RLt(est, ret.target)
                  /\ ret.scale = RDiv(ret.target, est)

\* A dark image (quantile below 1e-5) that was brightened.
C4_Witness ==
    /\ pc = "bs_done"
    /\ RLt(R(1), ret.scale)
    /\ RLt(ret.quantile, Frac(1, 100000))

\* C5: for every image with count >= 1 pixels, the index floor(0.8 * count)
\* is a valid index, quantileBrightness returns the element at that index of
\* the ascending sort of the per-pixel channel averages (at most that many
\* pixels are darker, more than that many are at most as bright), and an
\* image whose pixels all have brightness v yields v.
C5_QuantileIsOrderStatistic ==
    pc = "bs_done" =>
        LET n == Len(img)
            k == (8 * n) \div 10
            v == ret.quantile
            Darker(b) == RLt(b, v)
            NoBrighter(b) == RLeq(b, v)
        IN  /\ 0 <= k
            /\ k < n
            /\ CountPixels(img, Darker) <= k
            /\ CountPixels(img, NoBrighter) >= k + 1
            /\ (\A i, j \in 1..n : Brightness(img[i]) = Brightness(img[j]))
                  => v = Brightness(img[1])

\* Six pixels of three brightnesses: index 4 of the sort is neither end.
C5_Witness ==
    /\ pc = "bs_done"
    /\ Len(img) = 6
    /\ ret.quantile = Brightness(Mid)
    /\ \E i \in 1..6 : img[i] = White
    /\ \E i \in 1..6 : img[i] = Black

=============================================================================
